---- MODULE Spec2Model ----
(***************************************************************************)
(* A model of components/style/stylesheet_set.rs: the per-origin sheet     *)
(* collections of a DocumentStylesheetSet, their validity / dirty          *)
(* tracking, and the StylesheetFlusher / PerOriginFlusher protocol.        *)
(***************************************************************************)
EXTENDS Integers, Sequences, FiniteSets, TLC

VARIABLES
    debug_assertions,   \* build: are debug_assert!s compiled in
    feature,            \* build: the cargo feature, "servo" or "gecko"
    input,              \* the sheets and origins the caller passes, the origins
                        \* whose history is kept, the origins whose drained and
                        \* abandoned iterators are recorded, the origins it iterates with
                        \* manual_origin_sheets only, the length cap
    collections,        \* DocumentStylesheetSet.collections
    invalidations,      \* the calls the last operation made on self.invalidations
    observed,           \* what the set held when collect_invalidations_for ran
    flusher,            \* the StylesheetFlusher borrowed from the set, if any
    cursor,             \* the PerOriginFlusher borrowed from the flusher, if any
    panicked,           \* a panic unwound out of the last call
    last,               \* history: the last call made on the set itself
    hist                \* history: per origin, the mutations since the flusher of
                        \* the last flush() was dropped

vars == << debug_assertions, feature, input, collections, invalidations,
           observed, flusher, cursor, panicked, last, hist >>

build == << debug_assertions, feature, input >>

----------------------------------------------------------------------------
(* Bounds and the values of the program's types *)

MaxLen == 3

DocMaxLen == 1

UAMaxLen == 2

CycleMaxLen == 2

Origins == {"UserAgent", "User", "Author"}

DocSheets == {"ua1", "a1"}

TierSheets == {"a1", "a2", "a3"}

UASheets == {"ua1", "ua2", "ua3"}

CycleSheets == {"ua1", "a1", "a2"}

NoSheet == "none"

\* the origin of every sheet taken to be Author
OriginOf_AlwaysAuthor(sheet) == "Author"

\* sheet.contents(guard).origin
OriginOf(sheet) ==
    CASE sheet \in {"ua1", "ua2", "ua3"} -> "UserAgent"
      [] sheet = "u1" -> "User"
      [] OTHER -> "Author"

\* enum DataValidity
Valid == 0

CascadeInvalid == 1

FullyInvalid == 2

DataValidity == {Valid, CascadeInvalid, FullyInvalid}

\* enum SheetRebuildKind
SheetRebuildKind == {"Full", "CascadeOnly"}

\* The order in which PerOrigin::iter_mut_origins visits the origins.
OriginOrder == << "Author", "User", "UserAgent" >>

Max(a, b) == IF a >= b THEN a ELSE b

----------------------------------------------------------------------------
(* StylesheetSetEntry and SheetCollection *)

\* StylesheetSetEntry::new, with the entry born committed
StylesheetSetEntry_Committed(sheet) == [sheet |-> sheet, committed |-> TRUE]

\* StylesheetSetEntry::new
StylesheetSetEntry(sheet) == [sheet |-> sheet, committed |-> FALSE]

\* SheetCollection::default
SheetCollectionDefault ==
    [entries |-> << >>, data_validity |-> Valid, dirty |-> FALSE]

\* entries.iter().position(|entry| entry.sheet == *sheet): the first index
\* holding the sheet, 0 for None.
RECURSIVE PositionFrom(_, _, _)
PositionFrom(entries, sheet, i) ==
    IF i > Len(entries) THEN 0
    ELSE IF entries[i].sheet = sheet THEN i
    ELSE PositionFrom(entries, sheet, i + 1)

position(entries, sheet) == PositionFrom(entries, sheet, 1)

\* contains, comparing the last entry only
contains_LastOnly(c, sheet) ==
    c.entries # << >> /\ c.entries[Len(c.entries)].sheet = sheet

\* SheetCollection::contains
contains(c, sheet) == \E i \in 1..Len(c.entries) : c.entries[i].sheet = sheet

\* Vec::insert(index, element), index counted from 0
VecInsert(entries, index, e) ==
    SubSeq(entries, 1, index) \o << e >> \o SubSeq(entries, index + 1, Len(entries))

\* Vec::remove(index), index counted from 1 here
VecRemove(entries, i) ==
    SubSeq(entries, 1, i - 1) \o SubSeq(entries, i + 1, Len(entries))

\* set_data_validity_at_least, assigning the validity instead of raising it
set_data_validity_at_least_Overwrites(c, validity) ==
    [c EXCEPT !.dirty = TRUE, !.data_validity = validity]

\* set_data_validity_at_least, without marking the collection dirty
set_data_validity_at_least_KeepsClean(c, validity) ==
    [c EXCEPT !.data_validity = Max(validity, c.data_validity)]

\* SheetCollection::set_data_validity_at_least
set_data_validity_at_least(c, validity) ==
    [c EXCEPT !.dirty = TRUE, !.data_validity = Max(validity, c.data_validity)]

\* append, leaving the dirty flag as it was
append_KeepsClean(c, sheet) ==
    [c EXCEPT !.entries = Append(c.entries, StylesheetSetEntry(sheet))]

\* SheetCollection::append, past its debug assertion
append(c, sheet) ==
    [c EXCEPT !.entries = Append(c.entries, StylesheetSetEntry(sheet)),
              !.dirty = TRUE]

\* prepend, treating the insertion as an append: dirty, validity as it was
prepend_KeepsValidity(c, sheet) ==
    [c EXCEPT !.entries = VecInsert(c.entries, 0, StylesheetSetEntry(sheet)),
              !.dirty = TRUE]

\* SheetCollection::prepend, past its debug assertion
prepend(c, sheet) ==
    LET d == set_data_validity_at_least(c, CascadeInvalid)
    IN  [d EXCEPT !.entries = VecInsert(d.entries, 0, StylesheetSetEntry(sheet))]

\* insert_before, placing the entry behind the anchor
insert_before_AfterAnchor(c, sheet, index) ==
    LET d == set_data_validity_at_least(c, CascadeInvalid)
    IN  [d EXCEPT !.entries = VecInsert(d.entries, index, StylesheetSetEntry(sheet))]

\* SheetCollection::insert_before, once the anchor was found at index (from 1)
insert_before(c, sheet, index) ==
    LET d == set_data_validity_at_least(c, CascadeInvalid)
    IN  [d EXCEPT !.entries = VecInsert(d.entries, index - 1, StylesheetSetEntry(sheet))]

\* remove, without the check of the committed flag
remove_AlwaysInvalidates(c, index) ==
    set_data_validity_at_least(
        [c EXCEPT !.entries = VecRemove(c.entries, index)], FullyInvalid)

\* SheetCollection::remove, once the sheet was found at index (from 1)
remove(c, index) ==
    LET removed == c.entries[index]
        d == [c EXCEPT !.entries = VecRemove(c.entries, index)]
    IN  IF removed.committed
        THEN set_data_validity_at_least(d, FullyInvalid)
        ELSE [d EXCEPT !.dirty = TRUE]

\* SheetCollection::iter, collected
iter(c) == [i \in 1..Len(c.entries) |-> c.entries[i].sheet]

----------------------------------------------------------------------------
(* StylesheetInvalidationSet: the calls the set makes on it *)

\* collect_invalidations_for, called whether or not there is a device
collect_invalidations_for_IgnoresDevice(device) ==
    << "collect_invalidations_for" >>

\* sheet_set_methods!::collect_invalidations_for
collect_invalidations_for(device) ==
    IF device THEN << "collect_invalidations_for" >> ELSE << >>

NotObserved == [sheet |-> NoSheet, len |-> 0]

\* The sheet collect_invalidations_for was handed, and the length of the
\* collection c of its origin at the time of the call.
ObservedBy(device, sheet, c) ==
    IF device THEN [sheet |-> sheet, len |-> Len(c.entries)] ELSE NotObserved

----------------------------------------------------------------------------
(* The flusher and the per-origin flusher *)

NoFlusher ==
    [live |-> FALSE, origins_dirty |-> {},
     origin_data_validity |-> [o \in Origins |-> Valid],
     had_invalidations |-> FALSE,
     drained |-> {},
     prev |-> [op |-> "other", sheet |-> NoSheet, abandoned |-> {}]]

NoCursor ==
    [live |-> FALSE, kind |-> "none", origin |-> "Author", pos |-> 0,
     validity |-> Valid, done |-> FALSE, start |-> << >>, out |-> << >>]

\* StylesheetFlusher::data_validity
data_validity(f, origin) == f.origin_data_validity[origin]

\* StylesheetFlusher::origin_dirty
origin_dirty(f, origin) == origin \in f.origins_dirty

\* StylesheetFlusher::nothing_to_do
nothing_to_do(f) == f.origins_dirty = {}

\* next, without the early return for an uncommitted entry
RECURSIVE PerOriginFlusherNext_ByValidityOnly(_, _, _)
PerOriginFlusherNext_ByValidityOnly(entries, pos, validity) ==
    IF pos >= Len(entries)
    THEN [entries |-> entries, pos |-> pos, item |-> << >>]
    ELSE LET i == pos + 1
             es == [entries EXCEPT ![i].committed = TRUE]
         IN  IF validity = Valid
             THEN PerOriginFlusherNext_ByValidityOnly(es, i, validity)
             ELSE [entries |-> es, pos |-> i,
                   item |-> << entries[i].sheet,
                               IF validity = CascadeInvalid THEN "CascadeOnly" ELSE "Full" >>]

\* next, reading the committed flag without setting it
RECURSIVE PerOriginFlusherNext_LeavesUncommitted(_, _, _)
PerOriginFlusherNext_LeavesUncommitted(entries, pos, validity) ==
    IF pos >= Len(entries)
    THEN [entries |-> entries, pos |-> pos, item |-> << >>]
    ELSE LET i == pos + 1
         IN  IF ~entries[i].committed
             THEN [entries |-> entries, pos |-> i,
                   item |-> << entries[i].sheet, "Full" >>]
             ELSE IF validity = Valid
             THEN PerOriginFlusherNext_LeavesUncommitted(entries, i, validity)
             ELSE [entries |-> entries, pos |-> i,
                   item |-> << entries[i].sheet,
                               IF validity = CascadeInvalid THEN "CascadeOnly" ELSE "Full" >>]

\* next, committing every entry from the one it looks at to the end
RECURSIVE PerOriginFlusherNext_CommitsRest(_, _, _)
PerOriginFlusherNext_CommitsRest(entries, pos, validity) ==
    IF pos >= Len(entries)
    THEN [entries |-> entries, pos |-> pos, item |-> << >>]
    ELSE LET i == pos + 1
             committed == entries[i].committed
             es == [j \in 1..Len(entries) |->
                       IF j >= i THEN [entries[j] EXCEPT !.committed = TRUE]
                       ELSE entries[j]]
         IN  IF ~committed
             THEN [entries |-> es, pos |-> i, item |-> << entries[i].sheet, "Full" >>]
             ELSE IF validity = Valid
             THEN PerOriginFlusherNext_CommitsRest(es, i, validity)
             ELSE [entries |-> es, pos |-> i,
                   item |-> << entries[i].sheet,
                               IF validity = CascadeInvalid THEN "CascadeOnly" ELSE "Full" >>]

\* PerOriginFlusher::next: entries are the collection's, pos the number of
\* entries the slice iterator has handed out; item is << >> for None.
RECURSIVE PerOriginFlusherNext(_, _, _)
PerOriginFlusherNext(entries, pos, validity) ==
    IF pos >= Len(entries)
    THEN [entries |-> entries, pos |-> pos, item |-> << >>]
    ELSE LET i == pos + 1
             committed == entries[i].committed
             es == [entries EXCEPT ![i].committed = TRUE]
         IN  IF ~committed
             THEN [entries |-> es, pos |-> i, item |-> << entries[i].sheet, "Full" >>]
             ELSE IF validity = Valid
             THEN PerOriginFlusherNext(es, i, validity)
             ELSE [entries |-> es, pos |-> i,
                   item |-> << entries[i].sheet,
                               IF validity = CascadeInvalid THEN "CascadeOnly" ELSE "Full" >>]

----------------------------------------------------------------------------
(* History *)

HistNew ==
    [append_only |-> [o \in Origins |-> TRUE],
     removed_committed |-> [o \in Origins |-> FALSE],
     abandoned |-> {}]

\* The history after a mutation other than an append reached the collections of
\* origins; removed says that it removed a committed entry.
Mutated(origins, removed) ==
    [append_only |->
         [o \in Origins |->
             hist.append_only[o] /\ ~(o \in origins /\ o \in input.tracked)],
     removed_committed |->
         [o \in Origins |->
             hist.removed_committed[o]
                 \/ (removed /\ o \in origins /\ o \in input.tracked)],
     abandoned |-> hist.abandoned]

\* The history after the iterator cur was dropped: its origin is abandoned when
\* it was an origin_sheets iterator that had yielded an item and left an
\* uncommitted entry unvisited.
Abandoned(cur, entries) ==
    IF /\ cur.kind = "origin_sheets"
       /\ cur.origin \in input.watched
       /\ cur.out # << >>
       /\ \E i \in (cur.pos + 1)..Len(entries) : ~entries[i].committed
    THEN [hist EXCEPT !.abandoned = @ \cup {cur.origin}]
    ELSE hist

Call(op, sheet, outcome) == [op |-> op, sheet |-> sheet, outcome |-> outcome]

\* No flusher is alive and no panic has unwound: the set can be called.
Idle == ~panicked /\ ~flusher.live

----------------------------------------------------------------------------
(* DocumentStylesheetSet *)

InitWith(in) ==
    /\ debug_assertions \in BOOLEAN
    /\ feature \in {"servo", "gecko"}
    /\ input = in
    /\ collections = [o \in Origins |-> SheetCollectionDefault]
    /\ invalidations = << >>
    /\ observed = NotObserved
    /\ flusher = NoFlusher
    /\ cursor = NoCursor
    /\ panicked = FALSE
    /\ last = Call("new", NoSheet, "ok")
    /\ hist = HistNew

\* The document: sheets of two origins, every origin named to force_dirty and
\* to the flusher.
Init ==
    InitWith([sheets |-> DocSheets, origins |-> Origins, tracked |-> {},
              watched |-> {}, manual_only |-> {}, max_len |-> DocMaxLen])

\* One origin: three author sheets, with the history of that origin.
InitTier ==
    InitWith([sheets |-> TierSheets, origins |-> {"Author"}, tracked |-> {"Author"},
              watched |-> {}, manual_only |-> {}, max_len |-> MaxLen])

\* The user-agent origin alone: two user-agent sheets, for a caller that uses
\* both iterators on it and for one that uses manual_origin_sheets only.
InitUA ==
    \E manual_only \in {{}, {"UserAgent"}} :
        InitWith([sheets |-> UASheets, origins |-> {"UserAgent"}, tracked |-> {},
                  watched |-> {"UserAgent"} \ manual_only,
                  manual_only |-> manual_only, max_len |-> UAMaxLen])

\* DocumentStylesheetSet::append_stylesheet
append_stylesheet(device, sheet) ==
    LET origin == OriginOf(sheet)
        c == collections[origin]
        fails == debug_assertions /\ contains(c, sheet)
    IN  /\ Idle
        /\ ~fails => Len(c.entries) < input.max_len
        /\ invalidations' = collect_invalidations_for(device)
        /\ observed' = ObservedBy(device, sheet, c)
        /\ IF fails
           THEN /\ panicked' = TRUE
                /\ UNCHANGED << collections, hist >>
           ELSE /\ collections' = [collections EXCEPT ![origin] = append(c, sheet)]
                /\ UNCHANGED << panicked, hist >>
        /\ last' = Call("append_stylesheet", sheet, IF fails THEN "duplicate" ELSE "ok")
        /\ UNCHANGED << build, flusher, cursor >>

\* DocumentStylesheetSet::prepend_stylesheet
prepend_stylesheet(device, sheet) ==
    LET origin == OriginOf(sheet)
        c == collections[origin]
        fails == debug_assertions /\ contains(c, sheet)
    IN  /\ Idle
        /\ ~fails => Len(c.entries) < input.max_len
        /\ invalidations' = collect_invalidations_for(device)
        /\ observed' = ObservedBy(device, sheet, c)
        /\ IF fails
           THEN /\ panicked' = TRUE
                /\ UNCHANGED << collections, hist >>
           ELSE /\ collections' = [collections EXCEPT ![origin] = prepend(c, sheet)]
                /\ hist' = Mutated({origin}, FALSE)
                /\ UNCHANGED panicked
        /\ last' = Call("prepend_stylesheet", sheet, IF fails THEN "duplicate" ELSE "ok")
        /\ UNCHANGED << build, flusher, cursor >>

\* insert_stylesheet_before, looking the anchor up in the collection of the
\* anchor's origin and inserting there
insert_stylesheet_before_AnchorTier(device, sheet, before_sheet) ==
    LET origin == OriginOf(before_sheet)
        c == collections[origin]
        duplicate == debug_assertions /\ contains(c, sheet)
        index == position(c.entries, before_sheet)
        outcome == IF duplicate THEN "duplicate"
                   ELSE IF index = 0 THEN "no_anchor" ELSE "ok"
    IN  /\ Idle
        /\ invalidations' = collect_invalidations_for(device)
        /\ observed' = ObservedBy(device, sheet, c)
        /\ IF outcome # "ok"
           THEN /\ panicked' = TRUE
                /\ UNCHANGED << collections, hist >>
           ELSE /\ collections' =
                       [collections EXCEPT ![origin] = insert_before(c, sheet, index)]
                /\ hist' = Mutated({origin}, FALSE)
                /\ UNCHANGED panicked
        /\ last' = Call("insert_stylesheet_before", sheet, outcome)
        /\ UNCHANGED << build, flusher, cursor >>

\* DocumentStylesheetSet::insert_stylesheet_before
insert_stylesheet_before(device, sheet, before_sheet) ==
    LET origin == OriginOf(sheet)
        c == collections[origin]
        duplicate == debug_assertions /\ contains(c, sheet)
        index == position(c.entries, before_sheet)
        outcome == IF duplicate THEN "duplicate"
                   ELSE IF index = 0 THEN "no_anchor" ELSE "ok"
    IN  /\ Idle
        /\ outcome = "ok" => Len(c.entries) < input.max_len
        /\ invalidations' = collect_invalidations_for(device)
        /\ observed' = ObservedBy(device, sheet, c)
        /\ IF outcome # "ok"
           THEN /\ panicked' = TRUE
                /\ UNCHANGED << collections, hist >>
           ELSE /\ collections' =
                       [collections EXCEPT ![origin] = insert_before(c, sheet, index)]
                /\ hist' = Mutated({origin}, FALSE)
                /\ UNCHANGED panicked
        /\ last' = Call("insert_stylesheet_before", sheet, outcome)
        /\ UNCHANGED << build, flusher, cursor >>

\* remove_stylesheet, unwrapping the index in every build
remove_stylesheet_AlwaysUnwraps(device, sheet) ==
    LET origin == OriginOf(sheet)
        c == collections[origin]
        index == position(c.entries, sheet)
        outcome == IF index = 0 THEN "absent"
                   ELSE (IF c.entries[index].committed THEN "committed" ELSE "uncommitted")
    IN  /\ Idle
        /\ invalidations' = collect_invalidations_for(device)
        /\ observed' = ObservedBy(device, sheet, c)
        /\ IF outcome = "absent"
           THEN /\ panicked' = TRUE
                /\ UNCHANGED << collections, hist >>
           ELSE /\ collections' = [collections EXCEPT ![origin] = remove(c, index)]
                /\ hist' = Mutated({origin}, outcome = "committed")
                /\ UNCHANGED panicked
        /\ last' = Call("remove_stylesheet", sheet, outcome)
        /\ UNCHANGED << build, flusher, cursor >>

\* DocumentStylesheetSet::remove_stylesheet
remove_stylesheet(device, sheet) ==
    LET origin == OriginOf(sheet)
        c == collections[origin]
        index == position(c.entries, sheet)
        outcome == IF index = 0
                   THEN (IF feature = "gecko" THEN "ignored" ELSE "absent")
                   ELSE (IF c.entries[index].committed THEN "committed" ELSE "uncommitted")
    IN  /\ Idle
        /\ invalidations' = collect_invalidations_for(device)
        /\ observed' = ObservedBy(device, sheet, c)
        /\ CASE outcome = "absent" ->
                  /\ panicked' = TRUE
                  /\ UNCHANGED << collections, hist >>
             [] outcome = "ignored" ->
                  /\ hist' = Mutated({origin}, FALSE)
                  /\ UNCHANGED << collections, panicked >>
             [] OTHER ->
                  /\ collections' = [collections EXCEPT ![origin] = remove(c, index)]
                  /\ hist' = Mutated({origin}, outcome = "committed")
                  /\ UNCHANGED panicked
        /\ last' = Call("remove_stylesheet", sheet, outcome)
        /\ UNCHANGED << build, flusher, cursor >>

\* DocumentStylesheetSet::force_dirty
force_dirty(origins) ==
    /\ Idle
    /\ invalidations' = << "invalidate_fully" >>
    /\ observed' = NotObserved
    /\ collections' =
           [o \in Origins |->
               IF o \in origins
               THEN set_data_validity_at_least(collections[o], FullyInvalid)
               ELSE collections[o]]
    /\ hist' = Mutated(origins, FALSE)
    /\ last' = Call("force_dirty", NoSheet, "ok")
    /\ UNCHANGED << build, flusher, cursor, panicked >>

\* The loop of flush, taking the validity of a collection that was not dirty
\* into the snapshot as well
RECURSIVE FlushFrom_SnapshotsClean(_, _, _, _)
FlushFrom_SnapshotsClean(i, cols, dirty_set, validities) ==
    IF i > Len(OriginOrder)
    THEN [collections |-> cols, origins_dirty |-> dirty_set,
          origin_data_validity |-> validities, panicked |-> FALSE]
    ELSE LET origin == OriginOrder[i]
             c == cols[origin]
             was_dirty == c.dirty
         IN  IF ~was_dirty
             THEN IF debug_assertions /\ c.data_validity # Valid
                  THEN [collections |-> cols, origins_dirty |-> dirty_set,
                        origin_data_validity |-> validities, panicked |-> TRUE]
                  ELSE FlushFrom_SnapshotsClean(
                           i + 1, cols, dirty_set,
                           [validities EXCEPT ![origin] = c.data_validity])
             ELSE FlushFrom_SnapshotsClean(
                      i + 1,
                      [cols EXCEPT ![origin].dirty = FALSE,
                                   ![origin].data_validity = Valid],
                      dirty_set \cup {origin},
                      [validities EXCEPT ![origin] = c.data_validity])

\* The loop of DocumentStylesheetSet::flush over the origins, from the i-th of
\* OriginOrder on; it stops where the debug assertion fails.
RECURSIVE FlushFrom(_, _, _, _)
FlushFrom(i, cols, dirty_set, validities) ==
    IF i > Len(OriginOrder)
    THEN [collections |-> cols, origins_dirty |-> dirty_set,
          origin_data_validity |-> validities, panicked |-> FALSE]
    ELSE LET origin == OriginOrder[i]
             c == cols[origin]
             was_dirty == c.dirty
         IN  IF ~was_dirty
             THEN IF debug_assertions /\ c.data_validity # Valid
                  THEN [collections |-> cols, origins_dirty |-> dirty_set,
                        origin_data_validity |-> validities, panicked |-> TRUE]
                  ELSE FlushFrom(i + 1, cols, dirty_set, validities)
             ELSE FlushFrom(i + 1,
                            [cols EXCEPT ![origin].dirty = FALSE,
                                         ![origin].data_validity = Valid],
                            dirty_set \cup {origin},
                            [validities EXCEPT ![origin] = c.data_validity])

\* DocumentStylesheetSet::flush
flush(had_invalidations) ==
    LET r == FlushFrom(1, collections, {}, [o \in Origins |-> Valid])
    IN  /\ Idle
        /\ invalidations' = << "flush" >>
        /\ observed' = NotObserved
        /\ collections' = r.collections
        /\ panicked' = r.panicked
        /\ IF r.panicked
           THEN UNCHANGED flusher
           ELSE flusher' =
                       [live |-> TRUE,
                        origins_dirty |-> r.origins_dirty,
                        origin_data_validity |-> r.origin_data_validity,
                        had_invalidations |-> had_invalidations,
                        drained |-> {},
                        prev |-> IF last.op \in {"flush", "prepend_stylesheet"}
                                 THEN [op |-> last.op, sheet |-> last.sheet,
                                       abandoned |-> hist.abandoned]
                                 ELSE [op |-> "other", sheet |-> NoSheet,
                                       abandoned |-> hist.abandoned]]
        /\ last' = Call("flush", NoSheet, IF r.panicked THEN "panic" ELSE "ok")
        /\ hist' = [hist EXCEPT !.abandoned = {}]
        /\ UNCHANGED << build, cursor >>

\* DocumentStylesheetSet::flush_without_invalidation (feature "servo")
flush_without_invalidation ==
    /\ Idle
    /\ feature = "servo"
    /\ invalidations' = << "clear" >>
    /\ observed' = NotObserved
    /\ collections' = [o \in Origins |-> [collections[o] EXCEPT !.dirty = FALSE]]
    /\ last' = Call("flush_without_invalidation", NoSheet, "ok")
    /\ UNCHANGED << build, flusher, cursor, panicked, hist >>

\* DocumentStylesheetSet::has_changed
has_changed == \E o \in Origins : collections[o].dirty

\* DocumentStylesheetSet::len
len == LET n(o) == Len(collections[o].entries)
       IN  n("Author") + n("User") + n("UserAgent")

----------------------------------------------------------------------------
(* StylesheetFlusher and PerOriginFlusher *)

\* StylesheetFlusher::origin_sheets
origin_sheets(origin) ==
    LET validity == data_validity(flusher, origin)
        dirty == origin_dirty(flusher, origin)
        fails == debug_assertions /\ ~(dirty \/ validity = Valid)
    IN  /\ ~panicked /\ flusher.live /\ ~cursor.live
        /\ IF fails
           THEN /\ panicked' = TRUE
                /\ UNCHANGED cursor
           ELSE /\ cursor' = [live |-> TRUE, kind |-> "origin_sheets",
                              origin |-> origin, pos |-> 0,
                              validity |-> validity, done |-> FALSE,
                              start |-> collections[origin].entries,
                              out |-> << >>]
                /\ UNCHANGED panicked
        /\ UNCHANGED << build, collections, invalidations, observed, flusher, last, hist >>

\* StylesheetFlusher::manual_origin_sheets
manual_origin_sheets(origin) ==
    LET fails == debug_assertions /\ origin # "UserAgent"
    IN  /\ ~panicked /\ flusher.live /\ ~cursor.live
        /\ IF fails
           THEN /\ panicked' = TRUE
                /\ UNCHANGED cursor
           ELSE /\ cursor' = [live |-> TRUE, kind |-> "manual_origin_sheets",
                              origin |-> origin, pos |-> 0,
                              validity |-> data_validity(flusher, origin),
                              done |-> FALSE,
                              start |-> collections[origin].entries,
                              out |-> << >>]
                /\ UNCHANGED panicked
        /\ UNCHANGED << build, collections, invalidations, observed, flusher, last, hist >>

\* StylesheetCollectionIterator::next, committing the entry it passes
StylesheetCollectionIteratorNext_Commits(entries, pos) ==
    IF pos >= Len(entries)
    THEN [entries |-> entries, pos |-> pos, item |-> << >>]
    ELSE [entries |-> [entries EXCEPT ![pos + 1].committed = TRUE], pos |-> pos + 1,
          item |-> << entries[pos + 1].sheet, "Manual" >>]

\* StylesheetCollectionIterator::next
StylesheetCollectionIteratorNext(entries, pos) ==
    IF pos >= Len(entries)
    THEN [entries |-> entries, pos |-> pos, item |-> << >>]
    ELSE [entries |-> entries, pos |-> pos + 1,
          item |-> << entries[pos + 1].sheet, "Manual" >>]

\* One call of next() on the iterator the flusher handed out
CursorNext ==
    LET entries == collections[cursor.origin].entries
        r == IF cursor.kind = "origin_sheets"
             THEN PerOriginFlusherNext(entries, cursor.pos, cursor.validity)
             ELSE StylesheetCollectionIteratorNext(entries, cursor.pos)
    IN  /\ ~panicked /\ cursor.live /\ ~cursor.done
        /\ collections' = [collections EXCEPT ![cursor.origin].entries = r.entries]
        /\ cursor' = [cursor EXCEPT
                        !.pos = r.pos,
                        !.done = (r.item = << >>),
                        !.out = IF r.item = << >> THEN @ ELSE Append(@, r.item)]
        /\ flusher' = IF /\ r.item = << >>
                         /\ cursor.kind = "origin_sheets"
                         /\ cursor.origin \in input.watched
                      THEN [flusher EXCEPT !.drained = @ \cup {cursor.origin}]
                      ELSE flusher
        /\ UNCHANGED << build, invalidations, observed, panicked, last, hist >>

\* The iterator goes out of scope
CursorDrop ==
    /\ ~panicked /\ cursor.live
    /\ cursor' = NoCursor
    /\ hist' = Abandoned(cursor, collections[cursor.origin].entries)
    /\ UNCHANGED << build, collections, invalidations, observed, flusher, panicked, last >>

\* The StylesheetFlusher goes out of scope
FlusherDrop ==
    /\ ~panicked /\ flusher.live /\ ~cursor.live
    /\ flusher' = NoFlusher
    /\ hist' = [HistNew EXCEPT !.abandoned = hist.abandoned]
    /\ UNCHANGED << build, collections, invalidations, observed, cursor, panicked, last >>

----------------------------------------------------------------------------

Next ==
    \/ \E device \in BOOLEAN, sheet \in input.sheets : append_stylesheet(device, sheet)
    \/ \E device \in BOOLEAN, sheet \in input.sheets : prepend_stylesheet(device, sheet)
    \/ \E device \in BOOLEAN, sheet \in input.sheets, before_sheet \in input.sheets :
           insert_stylesheet_before(device, sheet, before_sheet)
    \/ \E device \in BOOLEAN, sheet \in input.sheets : remove_stylesheet(device, sheet)
    \/ \E origins \in SUBSET input.origins : force_dirty(origins)
    \/ \E had_invalidations \in BOOLEAN : flush(had_invalidations)
    \/ flush_without_invalidation
    \/ \E origin \in input.origins \ input.manual_only : origin_sheets(origin)
    \/ CursorNext
    \/ CursorDrop
    \/ \E origin \in input.origins : manual_origin_sheets(origin)
    \/ FlusherDrop

Spec == Init /\ [][Next]_vars

SpecTier == InitTier /\ [][Next]_vars

SpecUA == InitUA /\ [][Next]_vars

\* Two origins, for a caller that after every flush() drains the
\* origin_sheets iterator of every origin the flusher reports dirty.
InitCycle ==
    InitWith([sheets |-> CycleSheets, origins |-> {"UserAgent", "Author"},
              tracked |-> {}, watched |-> {"UserAgent", "Author"},
              manual_only |-> {}, max_len |-> CycleMaxLen])

\* The iterator goes out of scope at its end
CursorDropAtEnd == cursor.done /\ CursorDrop

\* The StylesheetFlusher goes out of scope after the iterator of every dirty
\* origin was drained
FlusherDropDrained ==
    /\ \A o \in Origins : origin_dirty(flusher, o) => o \in flusher.drained
    /\ FlusherDrop

\* The calls of that caller: append, prepend, insert_before, remove (all
\* without a device), force_dirty, flush and the iterators of its flusher.
NextCycle ==
    \/ \E device \in {FALSE}, sheet \in input.sheets : append_stylesheet(device, sheet)
    \/ \E device \in {FALSE}, sheet \in input.sheets : prepend_stylesheet(device, sheet)
    \/ \E device \in {FALSE}, sheet \in input.sheets, before_sheet \in input.sheets :
           insert_stylesheet_before(device, sheet, before_sheet)
    \/ \E device \in {FALSE}, sheet \in input.sheets : remove_stylesheet(device, sheet)
    \/ \E origins \in SUBSET input.origins : force_dirty(origins)
    \/ \E had_invalidations \in {FALSE} : flush(had_invalidations)
    \/ \E origin \in input.origins : origin_sheets(origin)
    \/ CursorNext
    \/ CursorDropAtEnd
    \/ FlusherDropDrained

SpecCycle == InitCycle /\ [][NextCycle]_vars

----------------------------------------------------------------------------
(* What a drained PerOriginFlusher is expected to have yielded *)

\* The items for the entries of start, in order: an uncommitted entry as Full,
\* a committed one by the validity, none for a committed one under Valid.
ExpectedYield(start, validity) ==
    LET Kept(e) == ~e.committed \/ validity # Valid
        kept == SelectSeq(start, Kept)
    IN  [i \in 1..Len(kept) |->
            << kept[i].sheet,
               IF ~kept[i].committed \/ validity = FullyInvalid
               THEN "Full" ELSE "CascadeOnly" >>]

\* The PerOriginFlusher of origin has been drained to its end.
Drained(origin) ==
    /\ cursor.live
    /\ cursor.kind = "origin_sheets"
    /\ cursor.origin = origin
    /\ cursor.done

----------------------------------------------------------------------------
(* The claims *)

\* C1: in every reachable state, a collection that is not dirty has validity
\* Valid (the debug assertion of flush() never fails).
C1_NotDirtyIsValid ==
    \A o \in Origins :
        ~collections[o].dirty => collections[o].data_validity = Valid

\* C2: a flush() that returns leaves every collection not dirty and Valid and
\* its entries as they were; its flusher marks exactly the origins that were
\* dirty and holds for each of them the validity it had before the reset.
C2_FlushResets ==
    [][(Idle /\ flusher'.live) =>
          \A o \in Origins :
              /\ ~collections'[o].dirty
              /\ collections'[o].data_validity = Valid
              /\ collections'[o].entries = collections[o].entries
              /\ o \in flusher'.origins_dirty <=> collections[o].dirty
              /\ collections[o].dirty =>
                     flusher'.origin_data_validity[o] = collections[o].data_validity
      ]_vars

\* C3 as stated: the flusher of a flush() that directly follows a flush() has
\* nothing to do, and its origin_sheets iterators yield no entry.
C3_SecondFlushYieldsNothing ==
    (flusher.live /\ flusher.prev.op = "flush") =>
        /\ nothing_to_do(flusher)
        /\ (cursor.live /\ cursor.kind = "origin_sheets") => cursor.out = << >>

\* C3 as amended: the flusher of a flush() that directly follows a flush() has
\* nothing to do and reports every origin Valid, and a drained origin_sheets
\* iterator has yielded exactly the entries that were still uncommitted, each
\* as Full: none where every entry was committed.
C3_SecondFlushYieldsUncommitted ==
    (flusher.live /\ flusher.prev.op = "flush") =>
        /\ nothing_to_do(flusher)
        /\ \A o \in Origins :
               /\ data_validity(flusher, o) = Valid
               /\ Drained(o) =>
                      /\ cursor.out = ExpectedYield(cursor.start, Valid)
                      /\ \A i \in 1..Len(cursor.out) : cursor.out[i][2] = "Full"
                      /\ (\A i \in 1..Len(cursor.start) : cursor.start[i].committed)
                             => cursor.out = << >>

\* C3 happens: a second flush() in a row, one iterator drained without an
\* item over committed entries.
C3_Witness ==
    /\ flusher.live
    /\ flusher.prev.op = "flush"
    /\ Drained("Author")
    /\ cursor.start # << >>
    /\ cursor.out = << >>

\* C4: while the only mutations of an origin since the last flush are
\* appends, its validity stays Valid and every append leaves it dirty; the
\* flusher of the next flush reports it Valid, and its drained iterator has
\* yielded exactly the uncommitted entries, each as Full, in document order.
C4_AppendsKeepValid ==
    \A o \in input.tracked :
        hist.append_only[o] =>
            /\ (/\ Idle
                /\ last.op = "append_stylesheet"
                /\ last.outcome = "ok"
                /\ OriginOf(last.sheet) = o) =>
                   /\ collections[o].data_validity = Valid
                   /\ collections[o].dirty
            /\ flusher.live => data_validity(flusher, o) = Valid
            /\ Drained(o) => cursor.out = ExpectedYield(cursor.start, Valid)

\* C5: a remove of a present sheet deletes the first entry holding it and
\* nothing else, and leaves the collection dirty; the validity is unchanged
\* when that entry was uncommitted and FullyInvalid when it was committed.
C5_RemoveEffect ==
    [][(/\ Idle
        /\ last'.op = "remove_stylesheet"
        /\ last'.outcome \in {"committed", "uncommitted"}) =>
          LET sheet == last'.sheet
              c == collections[OriginOf(sheet)]
              d == collections'[OriginOf(sheet)]
          IN  \E i \in 1..Len(c.entries) :
                  /\ c.entries[i].sheet = sheet
                  /\ \A j \in 1..(i - 1) : c.entries[j].sheet # sheet
                  /\ Len(d.entries) = Len(c.entries) - 1
                  /\ \A j \in 1..(i - 1) : d.entries[j] = c.entries[j]
                  /\ \A j \in i..Len(d.entries) : d.entries[j] = c.entries[j + 1]
                  /\ d.dirty
                  /\ d.data_validity =
                         IF c.entries[i].committed
                         THEN FullyInvalid ELSE c.data_validity
                  /\ (/\ last.op = "append_stylesheet"
                      /\ last.outcome = "ok"
                      /\ last.sheet = sheet
                      /\ Cardinality({j \in 1..Len(c.entries) :
                                         c.entries[j].sheet = sheet}) = 1)
                         => d.data_validity = c.data_validity
      ]_vars

\* C5 happens: an uncommitted sheet was removed from a collection that keeps
\* other entries and stays Valid.
C5_Witness ==
    /\ Idle
    /\ last.op = "remove_stylesheet"
    /\ last.outcome = "uncommitted"
    /\ collections["Author"].entries # << >>
    /\ collections["Author"].dirty
    /\ collections["Author"].data_validity = Valid

\* The first iterator over the origin of the sheet that was prepended right
\* before the flush() has been drained.
PrependFlushed(o) ==
    /\ flusher.live
    /\ flusher.prev.op = "prepend_stylesheet"
    /\ OriginOf(flusher.prev.sheet) = o
    /\ Drained(o)
    /\ cursor.start # << >>
    /\ cursor.start[1] = StylesheetSetEntry(flusher.prev.sheet)

\* C6 as stated: after prepend and flush(), the drained iterator has yielded
\* the prepended sheet first, as Full, and every entry committed before as
\* CascadeOnly, in document order.
C6_PrependYieldsCascadeOnly ==
    \A o \in Origins :
        (/\ PrependFlushed(o)
         /\ \A i \in 2..Len(cursor.start) :
                cursor.start[i].sheet # flusher.prev.sheet) =>
            /\ Len(cursor.out) = Len(cursor.start)
            /\ cursor.out[1] = << flusher.prev.sheet, "Full" >>
            /\ \A i \in 2..Len(cursor.start) :
                   cursor.start[i].committed =>
                       cursor.out[i] = << cursor.start[i].sheet, "CascadeOnly" >>

\* C6 as amended: after prepend and flush(), the flusher reports the origin
\* dirty and CascadeInvalid or FullyInvalid, and the drained iterator has
\* yielded every entry in document order: the prepended sheet first, as Full,
\* every uncommitted entry as Full, and every committed entry as CascadeOnly
\* under CascadeInvalid and as Full under FullyInvalid.
C6_PrependYieldsBySnapshot ==
    \A o \in Origins :
        PrependFlushed(o) =>
            /\ origin_dirty(flusher, o)
            /\ data_validity(flusher, o) \in {CascadeInvalid, FullyInvalid}
            /\ Len(cursor.out) = Len(cursor.start)
            /\ cursor.out[1] = << flusher.prev.sheet, "Full" >>
            /\ \A i \in 2..Len(cursor.start) :
                   cursor.out[i] =
                       << cursor.start[i].sheet,
                          IF /\ cursor.start[i].committed
                             /\ data_validity(flusher, o) = CascadeInvalid
                          THEN "CascadeOnly" ELSE "Full" >>

\* C6 happens: a sheet was prepended before two committed entries, and the
\* iterator of the following flush() yielded them as CascadeOnly.
C6_Witness ==
    /\ PrependFlushed("Author")
    /\ Len(cursor.start) = 3
    /\ cursor.start[2].committed
    /\ cursor.start[3].committed
    /\ cursor.out[2][2] = "CascadeOnly"
    /\ cursor.out[3][2] = "CascadeOnly"

\* C7: a drained origin_sheets iterator has visited every entry once, in
\* document order: it yielded Full for an uncommitted entry, nothing for a
\* committed one under Valid, CascadeOnly under CascadeInvalid and Full under
\* FullyInvalid; every entry of the origin is committed afterwards.
C7_DrainedYield ==
    \A o \in Origins :
        Drained(o) =>
            /\ cursor.pos = Len(cursor.start)
            /\ cursor.out = ExpectedYield(cursor.start, cursor.validity)
            /\ cursor.validity = data_validity(flusher, o)
            /\ Len(collections[o].entries) = Len(cursor.start)
            /\ \A i \in 1..Len(cursor.start) :
                   /\ collections[o].entries[i].sheet = cursor.start[i].sheet
                   /\ collections[o].entries[i].committed

\* C7 happens: an iterator was drained under CascadeInvalid over a committed
\* and an uncommitted entry.
C7_Witness ==
    /\ Drained("Author")
    /\ cursor.validity = CascadeInvalid
    /\ \E i, j \in 1..Len(cursor.start) :
           cursor.start[i].committed /\ ~cursor.start[j].committed

\* C8: after a committed sheet was removed from an origin, the flusher of the
\* next flush() reports the origin FullyInvalid and its drained iterator has
\* yielded every remaining entry as Full.
C8_RemovedCommittedRebuildsAll ==
    \A o \in input.tracked :
        (flusher.live /\ hist.removed_committed[o]) =>
            /\ data_validity(flusher, o) = FullyInvalid
            /\ Drained(o) =>
                   cursor.out =
                       [i \in 1..Len(cursor.start) |->
                           << cursor.start[i].sheet, "Full" >>]

\* C9: force_dirty(origins) calls invalidate_fully() on the invalidations,
\* leaves every named origin dirty and FullyInvalid and every other collection
\* as it was, and changes no entry of any origin.
C9_ForceDirtyEffect ==
    [][\A origins \in SUBSET Origins :
          force_dirty(origins) =>
              /\ invalidations' = << "invalidate_fully" >>
              /\ \A o \in Origins :
                     /\ collections'[o].entries = collections[o].entries
                     /\ o \in origins =>
                            /\ collections'[o].dirty
                            /\ collections'[o].data_validity = FullyInvalid
                     /\ o \notin origins => collections'[o] = collections[o]
      ]_vars

\* C9 happens: force_dirty named one origin and not another whose collection
\* stays clean; the entries are as before.
C9_Witness ==
    /\ Idle
    /\ last.op = "force_dirty"
    /\ invalidations = << "invalidate_fully" >>
    /\ collections["Author"].dirty
    /\ collections["Author"].data_validity = FullyInvalid
    /\ collections["Author"].entries # << >>
    /\ ~collections["UserAgent"].dirty
    /\ collections["UserAgent"].data_validity = Valid

\* No collection holds a sheet twice.
NoDuplicates ==
    \A o \in Origins :
        \A i, j \in 1..Len(collections[o].entries) :
            collections[o].entries[i].sheet = collections[o].entries[j].sheet
                => i = j

\* C10 as stated: no collection ever holds a sheet twice, whatever the calls.
C10_NoDuplicates == NoDuplicates

\* C10 as amended: in a build with debug assertions no collection ever holds
\* a sheet twice: an append, prepend or insert_before of a present sheet
\* panics and adds nothing.
C10_NoDuplicatesDebug ==
    debug_assertions => NoDuplicates

\* C10 happens: with debug assertions, an insertion of a present sheet
\* panicked.
C10_Witness ==
    /\ debug_assertions
    /\ last.outcome = "duplicate"
    /\ panicked
    /\ contains(collections[OriginOf(last.sheet)], last.sheet)

\* C11: insert_stylesheet_before with an anchor absent from the collection of
\* the sheet's origin panics and leaves that collection as it was; with the
\* anchor present (and the call returning) the new uncommitted entry stands at
\* the index the first entry holding the anchor had, that anchor directly
\* behind it and every other entry in its old order, the validity is the
\* greater of the old one and CascadeInvalid, and the collection is dirty.
C11_InsertBeforeEffect ==
    [][(Idle /\ last'.op = "insert_stylesheet_before") =>
        \A device \in BOOLEAN, sheet \in {last'.sheet}, before_sheet \in input.sheets :
          insert_stylesheet_before(device, sheet, before_sheet) =>
              LET o == OriginOf(sheet)
                  c == collections[o]
                  d == collections'[o]
                  present == \E i \in 1..Len(c.entries) :
                                 c.entries[i].sheet = before_sheet
              IN  /\ ~present => (panicked' /\ d = c)
                  /\ (present /\ ~panicked') =>
                        \E i \in 1..Len(c.entries) :
                            /\ c.entries[i].sheet = before_sheet
                            /\ \A j \in 1..(i - 1) : c.entries[j].sheet # before_sheet
                            /\ Len(d.entries) = Len(c.entries) + 1
                            /\ d.entries[i] = [sheet |-> sheet, committed |-> FALSE]
                            /\ \A j \in 1..(i - 1) : d.entries[j] = c.entries[j]
                            /\ \A j \in i..Len(c.entries) :
                                   d.entries[j + 1] = c.entries[j]
                            /\ d.data_validity =
                                   (IF c.data_validity >= CascadeInvalid
                                    THEN c.data_validity ELSE CascadeInvalid)
                            /\ d.dirty
      ]_vars

\* C11 happens: a sheet was inserted between two committed entries of a
\* collection that was Valid.
C11_Witness ==
    /\ Idle
    /\ last.op = "insert_stylesheet_before"
    /\ last.outcome = "ok"
    /\ Len(collections["Author"].entries) = 3
    /\ collections["Author"].entries[1].committed
    /\ collections["Author"].entries[2] = [sheet |-> last.sheet, committed |-> FALSE]
    /\ collections["Author"].entries[3].committed
    /\ collections["Author"].data_validity = CascadeInvalid
    /\ collections["Author"].dirty

\* A step that is a remove_stylesheet of a sheet its collection does not hold.
RemoveOfAbsent ==
    /\ Idle
    /\ last'.op = "remove_stylesheet"
    /\ ~contains(collections[OriginOf(last'.sheet)], last'.sheet)

\* C12 as stated: a remove of an absent sheet is ignored, every collection
\* left as it was, only under feature "gecko" and only for a sheet of the
\* UserAgent origin; everywhere else it panics.
C12_LenientOnlyUserAgent ==
    [][RemoveOfAbsent =>
          IF feature = "gecko" /\ OriginOf(last'.sheet) = "UserAgent"
          THEN ~panicked' /\ collections' = collections
          ELSE panicked'
      ]_vars

\* C12 as amended: a remove of an absent sheet leaves every collection as it
\* was; it panics in a build without feature "gecko", and under feature
\* "gecko" it returns normally whatever the origin of the sheet.
C12_LenientEveryOrigin ==
    [][RemoveOfAbsent =>
          /\ collections' = collections
          /\ panicked' <=> feature # "gecko"
      ]_vars

\* C12 happens: under feature "gecko" the remove of an absent author sheet
\* returned, next to a committed user-agent sheet.
C12_Witness ==
    /\ feature = "gecko"
    /\ Idle
    /\ last.op = "remove_stylesheet"
    /\ last.outcome = "ignored"
    /\ OriginOf(last.sheet) = "Author"
    /\ collections["UserAgent"].entries = << [sheet |-> "ua1", committed |-> TRUE] >>
    /\ \A o \in Origins : ~collections[o].dirty

\* C13: the flusher of every flush() that returns is consistent: an origin
\* whose snapshot validity is not Valid is in origins_dirty; and no call of
\* origin_sheets panics on its assertion.
C13_SnapshotConsistent ==
    [][/\ flusher'.live =>
              \A o \in Origins :
                  data_validity(flusher', o) # Valid => origin_dirty(flusher', o)
       /\ \A origin \in Origins : origin_sheets(origin) => ~panicked'
      ]_vars

\* C13 happens: origin_sheets handed out an iterator for an origin that the
\* flusher reports clean and Valid while its collection still holds a
\* validity left behind a cleared dirty flag.
C13_Witness ==
    /\ flusher.live
    /\ cursor.live
    /\ cursor.kind = "origin_sheets"
    /\ ~panicked
    /\ ~origin_dirty(flusher, cursor.origin)
    /\ data_validity(flusher, cursor.origin) = Valid
    /\ collections[cursor.origin].data_validity # Valid

\* The entries es without the one at index i.
Without(es, i) ==
    [j \in 1..(Len(es) - 1) |-> IF j < i THEN es[j] ELSE es[j + 1]]

\* C14: every step leaves the entries of every collection as they were, or
\* adds one uncommitted entry for the sheet of the call among them, or takes
\* one entry out, or (a step of an origin_sheets iterator only) turns the
\* committed flag of entries that iterator just passed from false to true; so
\* an entry is born uncommitted, only a flush iterator commits it, and no call
\* on the set, no flush(), force_dirty or manual_origin_sheets iterator changes
\* the flag of an entry that stays.
C14_CommittedFlag ==
    [][\A o \in Origins :
          LET c == collections[o].entries
              d == collections'[o].entries
          IN  \/ d = c
              \/ /\ Idle
                 /\ last'.op \in {"append_stylesheet", "prepend_stylesheet",
                                  "insert_stylesheet_before"}
                 /\ \E i \in 1..Len(d) :
                        /\ d[i] = [sheet |-> last'.sheet, committed |-> FALSE]
                        /\ Without(d, i) = c
              \/ /\ Idle
                 /\ last'.op = "remove_stylesheet"
                 /\ \E i \in 1..Len(c) : Without(c, i) = d
              \/ /\ cursor.live
                 /\ cursor.kind = "origin_sheets"
                 /\ cursor.origin = o
                 /\ Len(d) = Len(c)
                 /\ \A i \in 1..Len(c) :
                        /\ d[i].sheet = c[i].sheet
                        /\ c[i].committed => d[i].committed
                        /\ d[i].committed # c[i].committed =>
                               (cursor.pos < i /\ i <= cursor'.pos)
      ]_vars

\* C14 happens: a committed sheet was removed from between a committed and an
\* uncommitted entry, which keep their flags.
C14_Witness ==
    /\ Idle
    /\ last.op = "remove_stylesheet"
    /\ last.outcome = "committed"
    /\ Len(collections["Author"].entries) = 2
    /\ collections["Author"].entries[1].committed
    /\ ~collections["Author"].entries[2].committed

\* A step that is one of the four single-sheet edits, made with this device
\* argument on this sheet.
EditStep(device, sheet) ==
    CASE last'.op = "append_stylesheet" -> append_stylesheet(device, sheet)
      [] last'.op = "prepend_stylesheet" -> prepend_stylesheet(device, sheet)
      [] last'.op = "insert_stylesheet_before" ->
             \E before_sheet \in input.sheets :
                 insert_stylesheet_before(device, sheet, before_sheet)
      [] last'.op = "remove_stylesheet" -> remove_stylesheet(device, sheet)
      [] OTHER -> FALSE

\* C15: an append, prepend, insert_before or remove of a sheet with a device
\* calls collect_invalidations_for once and nothing else on the invalidations,
\* for that sheet and while the collection of its origin is still as long as
\* before the call, also when the edit then panics or is ignored; without a
\* device it makes no call on the invalidations, and neither touches the
\* flusher or an iterator.
C15_CollectBeforeEdit ==
    [][(Idle /\ last'.op \in {"append_stylesheet", "prepend_stylesheet",
                              "insert_stylesheet_before", "remove_stylesheet"}) =>
        \A device \in BOOLEAN, sheet \in {last'.sheet} :
          EditStep(device, sheet) =>
              /\ device =>
                    /\ invalidations' = << "collect_invalidations_for" >>
                    /\ observed'.sheet = sheet
                    /\ observed'.len = Len(collections[OriginOf(sheet)].entries)
              /\ ~device =>
                    /\ invalidations' = << >>
                    /\ observed'.sheet = NoSheet
              /\ flusher' = flusher
              /\ cursor' = cursor
      ]_vars

\* C15 happens: a remove with a device took a sheet out of a collection of
\* three entries after collect_invalidations_for had run on it.
C15_Witness ==
    /\ Idle
    /\ last.op = "remove_stylesheet"
    /\ last.outcome \in {"committed", "uncommitted"}
    /\ invalidations = << "collect_invalidations_for" >>
    /\ observed = [sheet |-> last.sheet, len |-> 3]
    /\ Len(collections["Author"].entries) = 2

C17_ManualIterator ==
    [][LET ua == collections["UserAgent"]
           manual(c) == c.live /\ c.kind = "manual_origin_sheets"
                            /\ c.origin = "UserAgent"
       IN  /\ (manual(cursor) \/ manual(cursor')) =>
                  /\ collections' = collections
                  /\ flusher' = flusher
           /\ (manual(cursor') /\ cursor'.done) =>
                  /\ cursor'.start = ua.entries
                  /\ cursor'.out =
                         [i \in 1..Len(ua.entries) |-> << ua.entries[i].sheet, "Manual" >>]
           /\ "UserAgent" \in input.manual_only =>
                  /\ \A i \in 1..Len(ua.entries) : ~ua.entries[i].committed
                  /\ (/\ Idle
                      /\ last'.op = "remove_stylesheet"
                      /\ OriginOf(last'.sheet) = "UserAgent"
                      /\ contains(ua, last'.sheet)) =>
                         /\ Len(collections'["UserAgent"].entries) = Len(ua.entries) - 1
                         /\ collections'["UserAgent"].data_validity = ua.data_validity
      ]_vars

\* C17 happens: a manual_origin_sheets iterator was drained over a committed
\* and an uncommitted user-agent entry under a snapshot that is not Valid.
C17_Witness ==
    /\ cursor.live
    /\ cursor.kind = "manual_origin_sheets"
    /\ cursor.origin = "UserAgent"
    /\ cursor.done
    /\ Len(cursor.out) = 2
    /\ collections["UserAgent"].entries[1].committed
    /\ ~collections["UserAgent"].entries[2].committed
    /\ data_validity(flusher, "UserAgent") # Valid

\* The drained iterator has yielded, as Full, every entry that was
\* uncommitted when it was opened.
YieldedUncommittedAsFull ==
    \A i \in 1..Len(cursor.start) :
        ~cursor.start[i].committed =>
            \E k \in 1..Len(cursor.out) :
                cursor.out[k] = << cursor.start[i].sheet, "Full" >>

\* C18 as stated: where an origin_sheets iterator was dropped after an item,
\* before it had visited an uncommitted entry, the flusher of the next flush() reports that
\* origin dirty, and its drained iterator yields every uncommitted entry as
\* Full.
C18_AbandonedReportedDirty ==
    flusher.live =>
        \A o \in flusher.prev.abandoned :
            /\ origin_dirty(flusher, o)
            /\ Drained(o) => YieldedUncommittedAsFull

\* C18 as amended: an origin_sheets iterator that has handed out pos entries
\* has committed those and left every later entry as it was; where such an
\* iterator was dropped after an item, before it had visited an uncommitted
\* entry, the
\* iterator of that origin from the flusher of the next flush(), once drained,
\* has yielded every entry that was uncommitted as Full; but that flusher has
\* nothing to do when no call on the set came between the two flush() calls.
C18_AbandonedYieldedWhenOpened ==
    /\ (cursor.live /\ cursor.kind = "origin_sheets") =>
           LET es == collections[cursor.origin].entries
           IN  /\ Len(es) = Len(cursor.start)
               /\ \A i \in 1..Len(es) :
                      /\ es[i].sheet = cursor.start[i].sheet
                      /\ i <= cursor.pos => es[i].committed
                      /\ i > cursor.pos => es[i].committed = cursor.start[i].committed
    /\ flusher.live =>
           \A o \in flusher.prev.abandoned :
               /\ Drained(o) =>
                      /\ YieldedUncommittedAsFull
                      /\ cursor.out = ExpectedYield(cursor.start, data_validity(flusher, o))
               /\ flusher.prev.op = "flush" => ~origin_dirty(flusher, o)

\* C18 happens: an iterator was dropped after its first entry, and the
\* drained iterator of the next flusher, which does not report the origin
\* dirty, yielded the entry it had left uncommitted as Full.
C18_Witness ==
    /\ flusher.live
    /\ "UserAgent" \in flusher.prev.abandoned
    /\ ~origin_dirty(flusher, "UserAgent")
    /\ Drained("UserAgent")
    /\ Len(cursor.start) = 2
    /\ cursor.start[1].committed
    /\ cursor.out = << << cursor.start[2].sheet, "Full" >> >>

\* The tier a sheet of the document belongs to, by its name.
TierOf(sheet) ==
    IF sheet \in {"ua1", "ua2", "ua3"} THEN "UserAgent"
    ELSE IF sheet = "u1" THEN "User" ELSE "Author"

\* C19: an append, prepend, insert_before or remove of a sheet leaves the
\* collection of every origin but the sheet's own exactly as it was; a step
\* of an iterator leaves the collection of every origin but its own exactly
\* as it was, and of its own collection the validity, the dirty flag, the
\* length and the order of the sheets.
C19_TiersIndependent ==
    [][/\ (Idle /\ last'.op \in {"append_stylesheet", "prepend_stylesheet",
                                  "insert_stylesheet_before", "remove_stylesheet"}) =>
              \A o \in Origins \ {TierOf(last'.sheet)} :
                  collections'[o] = collections[o]
       /\ cursor.live =>
              /\ \A o \in Origins \ {cursor.origin} :
                     collections'[o] = collections[o]
              /\ collections'[cursor.origin].data_validity =
                     collections[cursor.origin].data_validity
              /\ collections'[cursor.origin].dirty = collections[cursor.origin].dirty
              /\ iter(collections'[cursor.origin]) = iter(collections[cursor.origin])
      ]_vars

\* C19 happens: the user-agent iterator was drained and committed its sheet
\* while the author collection, edited before the flush, keeps an uncommitted
\* sheet.
C19_Witness ==
    /\ Drained("UserAgent")
    /\ cursor.out # << >>
    /\ collections["UserAgent"].entries = << [sheet |-> "ua1", committed |-> TRUE] >>
    /\ collections["Author"].entries = << [sheet |-> "a1", committed |-> FALSE] >>
    /\ origin_dirty(flusher, "Author")

\* C20: for a caller that drains the iterator of every dirty origin after
\* every flush() and calls append, prepend, insert_before, remove, force_dirty
\* and flush only: whenever the set can be called, a collection holding an
\* uncommitted entry is dirty; a drained iterator has yielded every entry that
\* was uncommitted as Full; and right after a flush cycle every entry of every
\* collection is committed.
C20_UncommittedIsDirty ==
    /\ Idle =>
           \A o \in Origins :
               (\E i \in 1..Len(collections[o].entries) :
                    ~collections[o].entries[i].committed) => collections[o].dirty
    /\ \A o \in Origins : Drained(o) => YieldedUncommittedAsFull
    /\ (Idle /\ last.op = "flush") =>
           \A o \in Origins :
               \A i \in 1..Len(collections[o].entries) :
                   collections[o].entries[i].committed

\* C20 happens: a flush cycle has completed over two author sheets and a
\* user-agent sheet, all committed and clean now.
C20_Witness ==
    /\ Idle
    /\ last.op = "flush"
    /\ Len(collections["Author"].entries) = 2
    /\ Len(collections["UserAgent"].entries) = 1
    /\ \A o \in Origins : ~collections[o].dirty
    /\ collections["Author"].data_validity = Valid

\* C21: insert_stylesheet_before of a sheet before an anchor that the set
\* holds in the collection of another origin than the sheet's panics and
\* leaves the collection of every origin as it was; with a device,
\* collect_invalidations_for has been called for the sheet all the same.
C21_AnchorInOtherTier ==
    [][(Idle /\ last'.op = "insert_stylesheet_before") =>
        \A device \in BOOLEAN, sheet \in {last'.sheet}, before_sheet \in input.sheets :
          (/\ insert_stylesheet_before(device, sheet, before_sheet)
           /\ TierOf(before_sheet) # TierOf(sheet)
           /\ \E i \in 1..Len(collections[TierOf(before_sheet)].entries) :
                  collections[TierOf(before_sheet)].entries[i].sheet = before_sheet) =>
              /\ panicked'
              /\ collections' = collections
              /\ device =>
                    /\ invalidations' = << "collect_invalidations_for" >>
                    /\ observed'.sheet = sheet
              /\ ~device => invalidations' = << >>
      ]_vars

\* C21 happens: without debug assertions, the insertion of the author sheet
\* the set already holds panicked for want of its anchor, which can only have
\* been the user-agent sheet the set holds; collect_invalidations_for had run.
C21_Witness ==
    /\ panicked
    /\ ~debug_assertions
    /\ last = [op |-> "insert_stylesheet_before", sheet |-> "a1", outcome |-> "no_anchor"]
    /\ iter(collections["Author"]) = << "a1" >>
    /\ iter(collections["UserAgent"]) = << "ua1" >>
    /\ invalidations = << "collect_invalidations_for" >>

====
